---- MODULE Spec2Model ----
(***************************************************************************)
(* A model of the M-Pesa STK push service of src/app.js: the token fetch,  *)
(* the initiation pipeline (validateStkPushRequest, attachAccessToken, the  *)
(* /stkpush handler), the /access_token route and the /stk_callback         *)
(* handler.  src/app.js holds two variants of the service (lines 1-303 and  *)
(* lines 304-531); the variable `variant` says which one is deployed.       *)
(***************************************************************************)
EXTENDS Integers, Sequences, FiniteSets, TLC

(***************************************************************************)
(* Bounds of the model.                                                     *)
(***************************************************************************)
MaxReq == 2
MaxCb == 2
MaxTime == 1
MaxItems == 5
TokenTTL == 2
SafetyMargin == 1

Reqs == 1..MaxReq
Cbs == 1..MaxCb
CorrIds == 1..MaxReq

(***************************************************************************)
(* JavaScript values as they arrive in a parsed JSON body.  A value is a    *)
(* record [t, et, neg, s]: t is its type, s the characters of its string    *)
(* form without the sign, neg its sign (numbers only).  An array is kept    *)
(* with at most one element: et is the element's type ("none" for the       *)
(* empty array) and neg, s are the element's.  A number is kept by its      *)
(* decimal digits, "Infinity" or "NaN", so that numbers wider than 32 bits   *)
(* (a phone number) need no arithmetic.                                     *)
(***************************************************************************)
Digits == {"0", "1", "2", "3", "4", "5", "6", "7", "8", "9"}
WhiteSpace == {" ", "\n", "\t"}

Val(t, et, neg, s) == [t |-> t, et |-> et, neg |-> neg, s |-> s]
Undefined == Val("undefined", "", FALSE, <<"u","n","d","e","f","i","n","e","d">>)
Null == Val("null", "", FALSE, <<"n","u","l","l">>)
True == Val("boolean", "", FALSE, <<"t","r","u","e">>)
False == Val("boolean", "", FALSE, <<"f","a","l","s","e">>)
Str(s) == Val("string", "", FALSE, s)
Num(neg, s) == Val("number", "", neg, s)
NaN == Num(FALSE, <<"N","a","N">>)
Infinity == Num(FALSE, <<"I","n","f","i","n","i","t","y">>)
Zero == Num(FALSE, <<"0">>)
One == Num(FALSE, <<"1">>)
EmptyArray == Val("array", "none", FALSE, <<>>)
ArrayOf(v) == Val("array", v.t, v.neg, v.s)

AllDigits(s) == \A i \in 1..Len(s) : s[i] \in Digits
AllZero(s) == \A i \in 1..Len(s) : s[i] = "0"

\* ToString of a primitive: the sign and the characters.
PrimToString(neg, s) == IF neg THEN <<"-">> \o s ELSE s

\* ECMAScript ToString, as RegExp.prototype.test applies it to its argument.
\* Array.prototype.join renders a null or undefined element as "".
JsToString(v) ==
  IF v.t = "array"
    THEN IF v.et \in {"none", "null", "undefined"} THEN <<>> ELSE PrimToString(v.neg, v.s)
    ELSE PrimToString(v.neg, v.s)

RECURSIVE TrimLeft(_)
TrimLeft(s) == IF s # <<>> /\ s[1] \in WhiteSpace THEN TrimLeft(Tail(s)) ELSE s

RECURSIVE TrimRight(_)
TrimRight(s) ==
  IF s # <<>> /\ s[Len(s)] \in WhiteSpace THEN TrimRight(SubSeq(s, 1, Len(s) - 1)) ELSE s

RECURSIVE StripZeros(_)
StripZeros(s) == IF Len(s) > 1 /\ s[1] = "0" THEN StripZeros(Tail(s)) ELSE s

\* ECMAScript StringToNumber on the literals of the model: white space is
\* trimmed, the empty string is 0, an optional sign, then decimal digits or
\* "Infinity"; everything else is NaN.
StringToNumber(str) ==
  LET t == TrimRight(TrimLeft(str))
      signed == t # <<>> /\ t[1] \in {"+", "-"}
      neg == t # <<>> /\ t[1] = "-"
      body == IF signed THEN Tail(t) ELSE t
  IN  IF t = <<>> THEN Zero
      ELSE IF body # <<>> /\ AllDigits(body) THEN Num(neg, StripZeros(body))
      ELSE IF body = Infinity.s THEN Num(neg, Infinity.s)
      ELSE NaN

\* ECMAScript ToNumber.
ToNumber(v) ==
  CASE v.t = "undefined" -> NaN
    [] v.t = "null" -> Zero
    [] v.t = "boolean" -> IF v = True THEN One ELSE Zero
    [] v.t = "number" -> v
    [] v.t = "string" -> StringToNumber(v.s)
    [] v.t = "array" -> StringToNumber(JsToString(v))

\* ECMAScript ToBoolean: the operand of `!x`.
ToBoolean(v) ==
  CASE v.t \in {"undefined", "null"} -> FALSE
    [] v.t = "boolean" -> v = True
    [] v.t = "number" -> ~(v.s = NaN.s \/ (AllDigits(v.s) /\ AllZero(v.s)))
    [] v.t = "string" -> v.s # <<>>
    [] v.t = "array" -> TRUE

\* The global isNaN(x): ToNumber(x) is NaN.
isNaN(v) == ToNumber(v).s = NaN.s

\* x <= 0 with a number on the right: ToNumber(x) <= 0, false for NaN.
LessOrEqualZero(v) ==
  LET n == ToNumber(v)
  IN  /\ n.s # NaN.s
      /\ \/ AllDigits(n.s) /\ AllZero(n.s)
         \/ n.neg

\* /^254\d{9}$/.test(x): twelve characters, "254" and nine ASCII digits; `$`
\* without the m flag matches at the end of the input only.
PhoneRegexTest(v) ==
  LET s == JsToString(v)
  IN  /\ Len(s) = 12
      /\ s[1] = "2" /\ s[2] = "5" /\ s[3] = "4"
      /\ AllDigits(s)

\* validateStkPushRequest without the test of the phone number.
validateStkPushRequest_noPhoneTest(phone, amount) ==
  IF ~ToBoolean(phone) \/ ~ToBoolean(amount) THEN 400
  ELSE IF isNaN(amount) \/ LessOrEqualZero(amount) THEN 400
  ELSE 0

\* validateStkPushRequest: 400 when the request is rejected, 0 when next()
\* is called.
validateStkPushRequest(phone, amount) ==
  IF ~ToBoolean(phone) \/ ~ToBoolean(amount) THEN 400
  ELSE IF ~PhoneRegexTest(phone) THEN 400
  ELSE IF isNaN(amount) \/ LessOrEqualZero(amount) THEN 400
  ELSE 0
(***************************************************************************)
(* moment().format(...): the clock `now` counts seconds from ClockStart, a  *)
(* second of the day of 2024-01-01 close to a minute and hour rollover.     *)
(***************************************************************************)
ClockStart == 12 * 3600 - 1
DigitSeq == <<"0", "1", "2", "3", "4", "5", "6", "7", "8", "9">>
TwoDigits(n) == <<DigitSeq[(n \div 10) + 1], DigitSeq[(n % 10) + 1]>>
SecondOfDay(t) == (ClockStart + t) % 86400
HH(t) == TwoDigits(SecondOfDay(t) \div 3600)
mm(t) == TwoDigits((SecondOfDay(t) % 3600) \div 60)
ss(t) == TwoDigits(SecondOfDay(t) % 60)

\* moment().format("YYYYMMDDHHmmss")
formatTimestamp(t) == <<"2","0","2","4","0","1","0","1">> \o HH(t) \o mm(t) \o ss(t)

\* `stk_callback_${moment().format("YYYY-MM-DD-HH-mm-ss")}.json`, without
\* the constant prefix and suffix.
callbackFilename(t) ==
  <<"2","0","2","4","-","0","1","-","0","1","-">> \o HH(t) \o <<"-">> \o mm(t) \o <<"-">> \o ss(t)
(***************************************************************************)
(* Buffer.from(string).toString("base64"): the string's characters as bytes  *)
(* (one byte for each ASCII character), three bytes to four characters of   *)
(* the base64 alphabet, "=" padding.                                        *)
(***************************************************************************)
\* The printable ASCII characters, code 32 first; the double quote, the
\* backslash and the backtick are written by name.
Printable ==
  << " ", "!", "QUOTE", "#", "$", "%", "&", "'", "(", ")", "*", "+", ",", "-", ".", "/",
     "0", "1", "2", "3", "4", "5", "6", "7", "8", "9", ":", ";", "<", "=", ">", "?",
     "@", "A", "B", "C", "D", "E", "F", "G", "H", "I", "J", "K", "L", "M", "N", "O",
     "P", "Q", "R", "S", "T", "U", "V", "W", "X", "Y", "Z", "[", "BACKSLASH", "]", "^", "_",
     "BACKTICK", "a", "b", "c", "d", "e", "f", "g", "h", "i", "j", "k", "l", "m", "n", "o",
     "p", "q", "r", "s", "t", "u", "v", "w", "x", "y", "z", "{", "|", "}", "~" >>

Base64Alphabet ==
  << "A", "B", "C", "D", "E", "F", "G", "H", "I", "J", "K", "L", "M", "N", "O", "P",
     "Q", "R", "S", "T", "U", "V", "W", "X", "Y", "Z", "a", "b", "c", "d", "e", "f",
     "g", "h", "i", "j", "k", "l", "m", "n", "o", "p", "q", "r", "s", "t", "u", "v",
     "w", "x", "y", "z", "0", "1", "2", "3", "4", "5", "6", "7", "8", "9", "+", "/" >>

\* The UTF-8 byte of a printable ASCII character.
CharCode(c) == 31 + CHOOSE i \in 1..Len(Printable) : Printable[i] = c

\* Buffer.from(str): the bytes of the string.
BufferFrom(str) == [i \in 1..Len(str) |-> CharCode(str[i])]

B64(n) == Base64Alphabet[n + 1]

\* buf.toString("base64")
RECURSIVE toBase64(_)
toBase64(b) ==
  IF Len(b) = 0 THEN <<>>
  ELSE IF Len(b) = 1
    THEN <<B64(b[1] \div 4), B64((b[1] % 4) * 16), "=", "=">>
  ELSE IF Len(b) = 2
    THEN <<B64(b[1] \div 4), B64((b[1] % 4) * 16 + b[2] \div 16), B64((b[2] % 16) * 4), "=">>
  ELSE <<B64(b[1] \div 4), B64((b[1] % 4) * 16 + b[2] \div 16),
         B64((b[2] % 16) * 4 + b[3] \div 64), B64(b[3] % 64)>>
       \o toBase64(SubSeq(b, 4, Len(b)))

\* process.env.BUSINESSSHORTCODE and process.env.PASSKEY: the sandbox short
\* code and the first characters of a pass key.
BusinessShortCode == <<"1","7","4","3","7","9">>
PassKey == <<"b","f","b","2","7">>

\* Lines 147-149: the password of a request with the given timestamp.
password(timestamp) == toBase64(BufferFrom(BusinessShortCode \o PassKey \o timestamp))

(***************************************************************************)
(* The state.                                                               *)
(***************************************************************************)
VARIABLES
  variant,              \* 1: lines 1-303 are deployed, 2: lines 304-531
  credentials,          \* CONSUMER_KEY and CONSUMER_SECRET are both set
  now,                  \* the clock, in seconds
  req,                  \* the HTTP requests to /stkpush and /access_token
  cb,                   \* the HTTP requests to /stk_callback
  issued,               \* gateway: issue time of every access token it returned
  corrIssued,           \* gateway: number of CheckoutRequestIDs it returned
  pendingTransactions,  \* the Map of line 134, as the set of its entries
  documents,            \* the Appwrite transactions collection
  files                 \* variant 2: the stk_callback_*.json files, by name

vars == <<variant, credentials, now, req, cb, issued, corrIssued,
          pendingTransactions, documents, files>>

ValidPhoneChars == <<"2","5","4","7","1","2","3","4","5","6","7","8">>
ValidPhone == Str(ValidPhoneChars)
Hundred == Num(FALSE, <<"1","0","0">>)

\* The phoneNumber (variant 2: phone_number) values a client may send.
AllPhones ==
  { ValidPhone,
    Num(FALSE, ValidPhoneChars),
    ArrayOf(ValidPhone),
    Str(SubSeq(ValidPhoneChars, 1, 11)),
    Str(ValidPhoneChars \o <<"9">>),
    Str(<<"+">> \o ValidPhoneChars),
    Str(ValidPhoneChars \o <<"\n">>),
    Str(<<" ">> \o ValidPhoneChars),
    Str(<<"2","5","4","7","1","2","3","4","5","6","7","x">>),
    Str(<<"2","5","5","7","1","2","3","4","5","6","7","8">>),
    Str(<<"0","7","1","2","3","4","5","6","7","8">>),
    Num(TRUE, ValidPhoneChars),
    Str(<<>>), Undefined, Null, True, Zero, EmptyArray }

\* The amount (variant 2: payable_amount) values a client may send.
AllAmounts ==
  { Hundred, One,
    Str(<<"1","0","0">>), Str(<<" ","7"," ">>), Str(<<"+","7">>),
    Zero, Num(TRUE, <<"0">>), Num(TRUE, <<"5">>),
    Str(<<"0">>), Str(<<"-","5">>), Str(<<" ">>), Str(<<>>),
    Str(<<"a","b","c">>), Str(<<"1","0","0","K","E","S">>),
    Undefined, Null, True, False,
    ArrayOf(Num(FALSE, <<"5">>)), ArrayOf(Str(<<"a">>)), EmptyArray,
    Infinity }

AllBodies == [phone : AllPhones, amount : AllAmounts]

\* The bodies the clients of the whole-system specification send.
SampleBodies ==
  { [phone |-> ValidPhone, amount |-> Hundred],
    [phone |-> Str(SubSeq(ValidPhoneChars, 1, 11)), amount |-> Hundred],
    [phone |-> ValidPhone, amount |-> Zero] }

NoRequestData ==
  [Timestamp |-> <<>>, Password |-> <<>>, Amount |-> Undefined, PartyA |-> Undefined, bearer |-> 0]

\* A request slot no request has used yet.
IdleReq ==
  [ pc |-> "idle", route |-> "", phone |-> Undefined, amount |-> Undefined,
    status |-> 0, body |-> "", responses |-> 0,
    accessToken |-> 0, tokenGets |-> 0, pushPosts |-> 0,
    requestData |-> NoRequestData, CheckoutRequestID |-> 0,
    \* history: how the token fetch and the push of this request ended, and
    \* the token the gateway returned to this request's GET
    tokenOutcome |-> "", pushOutcome |-> "", fetched |-> 0 ]

\* res.status(code).json(body) / res.json(body): one response is sent.
Respond(q, code, body) ==
  [q EXCEPT !.pc = "done", !.status = code, !.body = body, !.responses = @ + 1]

(***************************************************************************)
(* The initiation pipeline.                                                 *)
(***************************************************************************)

\* A client sends POST /stkpush with a body drawn from Bodies.
StkPushArrives(r, Bodies) ==
  /\ req[r].pc = "idle"
  /\ \A q \in Reqs : q < r => req[q].pc # "idle"
  /\ \E b \in Bodies :
       req' = [req EXCEPT ![r] = [@ EXCEPT !.pc = "validate", !.route = "stkpush",
                                          !.phone = b.phone, !.amount = b.amount]]
  /\ UNCHANGED <<variant, credentials, now, cb, issued, corrIssued,
                 pendingTransactions, documents, files>>

\* A client sends GET /access_token.
AccessTokenArrives(r) ==
  /\ req[r].pc = "idle"
  /\ \A q \in Reqs : q < r => req[q].pc # "idle"
  /\ req' = [req EXCEPT ![r] = [@ EXCEPT !.pc = "getToken", !.route = "access_token"]]
  /\ UNCHANGED <<variant, credentials, now, cb, issued, corrIssued,
                 pendingTransactions, documents, files>>

\* validateStkPushRequest with a rejection that does not return: the 400
\* response is sent and next() is called all the same.
runValidation_noReturn(q) ==
  IF validateStkPushRequest(q.phone, q.amount) = 400
    THEN [Respond(q, 400, "error") EXCEPT !.pc = "getToken"]
    ELSE [q EXCEPT !.pc = "getToken"]

\* validateStkPushRequest on a request: `return res.status(400).json(...)`,
\* or next(), which hands the request to attachAccessToken.
runValidation(q) ==
  IF validateStkPushRequest(q.phone, q.amount) = 400
    THEN Respond(q, 400, "error")
    ELSE [q EXCEPT !.pc = "getToken"]

\* The validation middleware: a 400 response, or next().
Validate(r) ==
  /\ req[r].pc = "validate"
  /\ req' = [req EXCEPT ![r] = runValidation(@)]
  /\ UNCHANGED <<variant, credentials, now, cb, issued, corrIssued,
                 pendingTransactions, documents, files>>

\* getAccessToken without the check of lines 31-33: the GET is sent whatever
\* the credentials.
getAccessToken_noCredentialCheck(creds) == "get"

\* getAccessToken up to its await: "throw" when a credential is missing,
\* "get" when the GET to the token endpoint is sent.
getAccessToken(creds) == IF ~creds THEN "throw" ELSE "get"

\* attachAccessToken (on /stkpush) and the /access_token handler call
\* getAccessToken: a missing credential is answered 500, else the GET to the
\* token endpoint is in flight.
CallGetAccessToken(r) ==
  /\ req[r].pc = "getToken"
  /\ req' = [req EXCEPT ![r] =
               IF getAccessToken(credentials) = "throw"
                 THEN Respond([@ EXCEPT !.tokenOutcome = "missing"], 500, "error")
                 ELSE [@ EXCEPT !.pc = "awaitToken", !.tokenGets = @ + 1]]
  /\ UNCHANGED <<variant, credentials, now, cb, issued, corrIssued,
                 pendingTransactions, documents, files>>

\* The handler with a password built from a timestamp taken when the module
\* was loaded, not from the one sent.
stkpush_staleTimestamp(q, t) ==
  [q EXCEPT !.pc = "awaitPush", !.pushPosts = @ + 1,
            !.requestData = [Timestamp |-> formatTimestamp(t),
                             Password |-> password(formatTimestamp(0)),
                             Amount |-> q.amount,
                             PartyA |-> q.phone, bearer |-> q.accessToken]]

\* The /stkpush handler up to its await: requestData is built from one
\* reading of the clock and the POST to the push endpoint is sent.
stkpush(q, t) ==
  [q EXCEPT !.pc = "awaitPush", !.pushPosts = @ + 1,
            !.requestData = [Timestamp |-> formatTimestamp(t),
                             Password |-> password(formatTimestamp(t)),
                             Amount |-> q.amount,
                             PartyA |-> q.phone, bearer |-> q.accessToken]]

\* attachAccessToken storing a token of the module, not the one returned.
attachAccessToken_stale(q, token) == [q EXCEPT !.accessToken = 1]

\* Lines 55-56: req.accessToken = accessToken.
attachAccessToken(q, token) == [q EXCEPT !.accessToken = token]

\* The token endpoint answers with a token: getAccessToken returns it; on
\* /stkpush attachAccessToken stores it in req.accessToken and calls next(),
\* which runs the handler; /access_token answers with it.
TokenReturned(r) ==
  /\ req[r].pc = "awaitToken"
  /\ LET token == Len(issued) + 1
     IN  /\ issued' = Append(issued, now)
         /\ req' = [req EXCEPT ![r] =
                      IF @.route = "stkpush"
                        THEN stkpush(attachAccessToken(
                                       [@ EXCEPT !.tokenOutcome = "ok", !.fetched = token],
                                       token), now)
                        ELSE Respond([@ EXCEPT !.tokenOutcome = "ok", !.fetched = token,
                                               !.accessToken = token], 200, "access_token")]
  /\ UNCHANGED <<variant, credentials, now, cb, corrIssued,
                 pendingTransactions, documents, files>>

\* The GET to the token endpoint fails (network error or a rejected
\* Basic-auth exchange): getAccessToken throws, the caller answers 500.
TokenFailed(r) ==
  /\ req[r].pc = "awaitToken"
  /\ req' = [req EXCEPT ![r] = Respond([@ EXCEPT !.tokenOutcome = "failed"], 500, "error")]
  /\ UNCHANGED <<variant, credentials, now, cb, issued, corrIssued,
                 pendingTransactions, documents, files>>

\* The handler with the set call of lines 175-179 in force.
registerPending_set(pending, id, q) ==
  pending \cup {[key |-> id, phoneNumber |-> q.phone, amount |-> q.amount]}

\* Lines 174-182: what the handler does to pendingTransactions when the
\* gateway's response holds a CheckoutRequestID (the set call is commented
\* out).
registerPending(pending, id, q) == pending

\* The push endpoint accepts the request: the handler answers 200 with the
\* gateway's data.  withId: the data holds a CheckoutRequestID.
PushAccepted(r, withId) ==
  /\ req[r].pc = "awaitPush"
  /\ LET id == IF withId THEN corrIssued + 1 ELSE 0
     IN  /\ corrIssued' = IF withId THEN id ELSE corrIssued
         /\ pendingTransactions' =
              IF variant = 1 /\ withId
                THEN registerPending(pendingTransactions, id, req[r])
                ELSE pendingTransactions
         /\ req' = [req EXCEPT ![r] = Respond([@ EXCEPT !.CheckoutRequestID = id, !.pushOutcome = "accepted"],
                                              200, "success")]
  /\ UNCHANGED <<variant, credentials, now, cb, issued, documents, files>>

\* A catch block that sends the POST again.
stkpushCatch_retry(q) == [q EXCEPT !.pc = "awaitPush", !.pushPosts = @ + 1]

\* Lines 190-196: the catch block of the handler answers 500 with
\* {success: false, error}; nothing is sent again.
stkpushCatch(q) == Respond(q, 500, "failure")

\* The POST to the push endpoint fails (network error or an error status).
PushFailed(r) ==
  /\ req[r].pc = "awaitPush"
  /\ req' = [req EXCEPT ![r] = stkpushCatch([@ EXCEPT !.pushOutcome = "failed"])]
  /\ UNCHANGED <<variant, credentials, now, cb, issued, corrIssued,
                 pendingTransactions, documents, files>>

\* A second passes.
Tick ==
  /\ now < MaxTime
  /\ now' = now + 1
  /\ UNCHANGED <<variant, credentials, req, cb, issued, corrIssued,
                 pendingTransactions, documents, files>>
(***************************************************************************)
(* The callback endpoint.                                                   *)
(***************************************************************************)
Item(name, value) == [Name |-> name, Value |-> value]

\* The items a gateway callback's CallbackMetadata.Item list is made of.
ItemPool ==
  { Item("Amount", Num(FALSE, <<"5","0","0">>)),
    Item("Amount", Num(FALSE, <<"2","0">>)),
    Item("MpesaReceiptNumber", Str(<<"A","B","C","1","2","3">>)),
    Item("TransactionDate", Num(FALSE, <<"2","0","2","4","0","1","0","1","1","2","0","0","0","0">>)),
    Item("PhoneNumber", Num(FALSE, ValidPhoneChars)),
    Item("Balance", Undefined) }

MetadataNames == {"Amount", "MpesaReceiptNumber", "TransactionDate", "PhoneNumber"}

\* Item lists: the sequences of distinct items of the pool.
ItemLists ==
  { l \in UNION { [1..n -> ItemPool] : n \in 0..MaxItems } :
      \A i, j \in DOMAIN l : i # j => l[i] # l[j] }

ResultCodes == {0, 1032}
ResultDescs == {"The service request is processed successfully.", "Request cancelled by user"}

\* A request body of POST /stk_callback.  shape: "unparseable" (not JSON),
\* "noBody" (no Body member), "noStkCallback" (Body without stkCallback),
\* "nullStkCallback" (stkCallback: null), "object".  CheckoutRequestID 0: the
\* member is absent.  meta: CallbackMetadata is "absent", an object with
\* "noItem" member, or holds the "list" Item.
CallbackBody(shape, id, code, desc, meta, items) ==
  [ shape |-> shape, CheckoutRequestID |-> id, MerchantRequestID |-> IF id = 0 THEN 0 ELSE 100 + id,
    ResultCode |-> code, ResultDesc |-> desc, meta |-> meta, Item |-> items ]

NoCallbackBody == CallbackBody("", 0, 0, "", "absent", <<>>)
MalformedBodies ==
  { CallbackBody(sh, 0, 0, "", "absent", <<>>) :
      sh \in {"unparseable", "noBody", "noStkCallback", "nullStkCallback"} }

AllCallbackBodies ==
  MalformedBodies
  \cup { CallbackBody("object", id, code, desc, "list", l) :
           id \in {0} \cup CorrIds, code \in ResultCodes, desc \in ResultDescs, l \in ItemLists }
  \cup { CallbackBody("object", id, code, desc, m, <<>>) :
           id \in {0} \cup CorrIds, code \in ResultCodes, desc \in ResultDescs,
           m \in {"absent", "noItem"} }

FullMetadata ==
  << Item("Amount", Num(FALSE, <<"5","0","0">>)),
     Item("MpesaReceiptNumber", Str(<<"A","B","C","1","2","3">>)),
     Item("TransactionDate", Num(FALSE, <<"2","0","2","4","0","1","0","1","1","2","0","0","0","0">>)),
     Item("PhoneNumber", Num(FALSE, ValidPhoneChars)) >>

\* The callbacks the gateway of the whole-system specification delivers.
SampleCallbacks ==
  { CallbackBody("noBody", 0, 0, "", "absent", <<>>) }
  \cup { CallbackBody("object", id, 0, "The service request is processed successfully.",
                      "list", FullMetadata) : id \in CorrIds }
  \cup { CallbackBody("object", id, 1032, "Request cancelled by user", "absent", <<>>) :
           id \in CorrIds }

\* Lines 210-220: the record before the metadata is read.
baseTransaction(callbackData) ==
  [ checkoutRequestID |-> callbackData.CheckoutRequestID,
    merchantRequestID |-> callbackData.MerchantRequestID,
    resultCode |-> callbackData.ResultCode,
    resultDesc |-> callbackData.ResultDesc,
    mpesaReceiptNumber |-> Null,
    amount |-> One,
    transactionDate |-> Null,
    phoneNumber |-> Null,
    userId |-> "686c2e0f0027634a8e93" ]

NoTransaction ==
  [ checkoutRequestID |-> 0, merchantRequestID |-> 0, resultCode |-> 0, resultDesc |-> "",
    mpesaReceiptNumber |-> Undefined, amount |-> Undefined, transactionDate |-> Undefined,
    phoneNumber |-> Undefined, userId |-> "" ]

\* extractItem with the PhoneNumber line assigning transactionDate.
extractItem_wrongField(tx, item) ==
  LET a == IF item.Name = "Amount" THEN [tx EXCEPT !.amount = item.Value] ELSE tx
      b == IF item.Name = "MpesaReceiptNumber" THEN [a EXCEPT !.mpesaReceiptNumber = item.Value] ELSE a
      c == IF item.Name = "TransactionDate" THEN [b EXCEPT !.transactionDate = item.Value] ELSE b
  IN  IF item.Name = "PhoneNumber" THEN [c EXCEPT !.transactionDate = item.Value] ELSE c

\* Lines 225-228: the body of the forEach callback, for one item.
extractItem(tx, item) ==
  LET a == IF item.Name = "Amount" THEN [tx EXCEPT !.amount = item.Value] ELSE tx
      b == IF item.Name = "MpesaReceiptNumber" THEN [a EXCEPT !.mpesaReceiptNumber = item.Value] ELSE a
      c == IF item.Name = "TransactionDate" THEN [b EXCEPT !.transactionDate = item.Value] ELSE b
  IN  IF item.Name = "PhoneNumber" THEN [c EXCEPT !.phoneNumber = item.Value] ELSE c

\* Line 224: Item.forEach, first item first.
RECURSIVE forEachItem(_, _)
forEachItem(tx, items) ==
  IF items = <<>> THEN tx ELSE forEachItem(extractItem(tx, Head(items)), Tail(items))

\* Lines 210-230: the record the variant 1 handler builds from callbackData.
extractTransaction(callbackData) ==
  IF callbackData.meta = "list"
    THEN forEachItem(baseTransaction(callbackData), callbackData.Item)
    ELSE baseTransaction(callbackData)

\* pendingTransactions.get(id): whether an entry is found.
pendingGet(pending, id) == \E e \in pending : e.key = id

\* Lines 232-240: what the handler writes to the Appwrite collection (the
\* createDocument call is commented out).
saveTransaction(docs, tx) == docs

\* Lines 242-247: what the handler does to pendingTransactions after the
\* lookup (the delete call is commented out).
retirePending(pending, id, storedData) == pending

\* Whether the variant 1 handler throws inside its try block: reading
\* stkCallback of a missing Body, a member of a missing or null callbackData,
\* or forEach of a missing Item.
callbackThrows(body) ==
  \/ body.shape \in {"noBody", "noStkCallback", "nullStkCallback"}
  \/ body.shape = "object" /\ body.meta = "noItem"

\* A callback slot no callback has used yet.
IdleCb ==
  [ pc |-> "idle", body |-> NoCallbackBody, status |-> 0, responses |-> 0,
    storedData |-> FALSE, built |-> FALSE, transaction |-> NoTransaction, wrote |-> FALSE,
    initiated |-> FALSE ]

\* Whether an initiation has completed with CheckoutRequestID id (history
\* kept with each callback: what had happened when it was handled).
Initiated(id) == id # 0 /\ \E r \in Reqs : req[r].pc = "done" /\ req[r].CheckoutRequestID = id

\* res.sendStatus(code)
sendStatus(k, code) ==
  [k EXCEPT !.pc = "done", !.status = code, !.responses = @ + 1,
            !.initiated = Initiated(k.body.CheckoutRequestID)]

\* The gateway delivers a callback with a body drawn from Bodies.
CallbackArrives(c, Bodies) ==
  /\ cb[c].pc = "idle"
  /\ \A k \in Cbs : k < c => cb[k].pc # "idle"
  /\ \E b \in Bodies : cb' = [cb EXCEPT ![c] = [@ EXCEPT !.pc = "recv", !.body = b]]
  /\ UNCHANGED <<variant, credentials, now, req, issued, corrIssued,
                 pendingTransactions, documents, files>>

\* express.json() rejects a body that is not JSON: the error-handling
\* middleware (lines 288-291, 517-520) answers 500.
CallbackUnparseable(c) ==
  /\ cb[c].pc = "recv"
  /\ cb[c].body.shape = "unparseable"
  /\ cb' = [cb EXCEPT ![c] = sendStatus(@, 500)]
  /\ UNCHANGED <<variant, credentials, now, req, issued, corrIssued,
                 pendingTransactions, documents, files>>

\* Variant 1, lines 200-254: the handler has no await and runs as one step.
StkCallback1(c) ==
  /\ variant = 1
  /\ cb[c].pc = "recv"
  /\ cb[c].body.shape # "unparseable"
  /\ LET body == cb[c].body
         id == body.CheckoutRequestID
         storedData == pendingGet(pendingTransactions, id)
         tx == extractTransaction(body)
     IN  IF callbackThrows(body)
           THEN /\ cb' = [cb EXCEPT ![c] = sendStatus(@, 500)]
                /\ UNCHANGED <<pendingTransactions, documents>>
           ELSE /\ cb' = [cb EXCEPT ![c] =
                            sendStatus([@ EXCEPT !.storedData = storedData, !.built = TRUE,
                                                 !.transaction = tx], 200)]
                /\ documents' = saveTransaction(documents, tx)
                /\ pendingTransactions' = retirePending(pendingTransactions, id, storedData)
  /\ UNCHANGED <<variant, credentials, now, req, issued, corrIssued, files>>

\* fs.writeFileSync(filename, data): the file holds data, whatever it held.
writeFileSync(fs, filename, data) ==
  [n \in DOMAIN fs \cup {filename} |-> IF n = filename THEN data ELSE fs[n]]

\* Variant 2, lines 456-483.  writeOk: writeFileSync does not throw.  A
\* missing Body throws before the write; a callbackData that is undefined or
\* null throws at line 470, after the write.
StkCallback2(c, writeOk) ==
  /\ variant = 2
  /\ cb[c].pc = "recv"
  /\ cb[c].body.shape # "unparseable"
  /\ LET body == cb[c].body
         reachesWrite == body.shape # "noBody"
         written == reachesWrite /\ writeOk
     IN  /\ files' = IF written THEN writeFileSync(files, callbackFilename(now), body) ELSE files
         /\ cb' = [cb EXCEPT ![c] =
                     sendStatus([@ EXCEPT !.wrote = written],
                                IF written /\ body.shape = "object" THEN 200 ELSE 500)]
  /\ UNCHANGED <<variant, credentials, now, req, issued, corrIssued,
                 pendingTransactions, documents>>

(***************************************************************************)
(* Specifications.                                                          *)
(***************************************************************************)
Init ==
  /\ variant \in {1, 2}
  /\ credentials \in BOOLEAN
  /\ now = 0
  /\ req = [r \in Reqs |-> IdleReq]
  /\ cb = [c \in Cbs |-> IdleCb]
  /\ issued = <<>>
  /\ corrIssued = 0
  /\ pendingTransactions = {}
  /\ documents = <<>>
  /\ files = <<>>

Next ==
  \/ \E r \in Reqs : StkPushArrives(r, SampleBodies)
  \/ \E r \in Reqs : AccessTokenArrives(r)
  \/ \E r \in Reqs : Validate(r)
  \/ \E r \in Reqs : CallGetAccessToken(r)
  \/ \E r \in Reqs : TokenReturned(r)
  \/ \E r \in Reqs : TokenFailed(r)
  \/ \E r \in Reqs : \E withId \in BOOLEAN : PushAccepted(r, withId)
  \/ \E r \in Reqs : PushFailed(r)
  \/ \E c \in Cbs : CallbackArrives(c, SampleCallbacks)
  \/ \E c \in Cbs : StkCallback1(c)
  \/ \E c \in Cbs : \E writeOk \in BOOLEAN : StkCallback2(c, writeOk)
  \/ Tick

\* The whole system: concurrent initiations, token requests and callbacks.
Spec == Init /\ [][Next]_vars
\* One initiation request, its body drawn from every phone number and
\* amount of the model, run through the pipeline.
InitInitiation ==
  /\ variant \in {1, 2}
  /\ credentials \in BOOLEAN
  /\ now = 0
  /\ \E b \in AllBodies :
       req = [r \in Reqs |->
                IF r = 1
                  THEN [IdleReq EXCEPT !.pc = "validate", !.route = "stkpush",
                                       !.phone = b.phone, !.amount = b.amount]
                  ELSE IdleReq]
  /\ cb = [c \in Cbs |-> IdleCb]
  /\ issued = <<>>
  /\ corrIssued = 0
  /\ pendingTransactions = {}
  /\ documents = <<>>
  /\ files = <<>>

NextInitiation ==
  \/ \E r \in Reqs : Validate(r)
  \/ \E r \in Reqs : CallGetAccessToken(r)
  \/ \E r \in Reqs : TokenReturned(r)
  \/ \E r \in Reqs : TokenFailed(r)
  \/ \E r \in Reqs : \E withId \in BOOLEAN : PushAccepted(r, withId)
  \/ \E r \in Reqs : PushFailed(r)
  \/ Tick

SpecInitiation == InitInitiation /\ [][NextInitiation]_vars

\* Concurrent initiations and token requests alone: no callback is
\* delivered (the callback handlers leave the requests untouched).
NextRequests ==
  \/ \E r \in Reqs : StkPushArrives(r, SampleBodies)
  \/ \E r \in Reqs : AccessTokenArrives(r)
  \/ \E r \in Reqs : Validate(r)
  \/ \E r \in Reqs : CallGetAccessToken(r)
  \/ \E r \in Reqs : TokenReturned(r)
  \/ \E r \in Reqs : TokenFailed(r)
  \/ \E r \in Reqs : \E withId \in BOOLEAN : PushAccepted(r, withId)
  \/ \E r \in Reqs : PushFailed(r)
  \/ Tick

SpecRequests == Init /\ [][NextRequests]_vars

\* One callback, its body drawn from every callback body of the model,
\* handled by the callback endpoint.
InitCallback ==
  /\ variant \in {1, 2}
  /\ credentials \in BOOLEAN
  /\ now = 0
  /\ req = [r \in Reqs |-> IdleReq]
  /\ \E b \in AllCallbackBodies :
       cb = [c \in Cbs |-> IF c = 1 THEN [IdleCb EXCEPT !.pc = "recv", !.body = b] ELSE IdleCb]
  /\ issued = <<>>
  /\ corrIssued = 0
  /\ pendingTransactions = {}
  /\ documents = <<>>
  /\ files = <<>>

NextCallback ==
  \/ \E c \in Cbs : CallbackUnparseable(c)
  \/ \E c \in Cbs : StkCallback1(c)
  \/ \E c \in Cbs : \E writeOk \in BOOLEAN : StkCallback2(c, writeOk)

SpecCallback == InitCallback /\ [][NextCallback]_vars
(***************************************************************************)
(* The claims.                                                              *)
(***************************************************************************)

\* The pattern ^254\d{9}$, spelled out on a sequence of characters.
MatchesKenyanPattern(s) ==
  /\ Len(s) = 12
  /\ SubSeq(s, 1, 3) = <<"2", "5", "4">>
  /\ \A i \in 4..Len(s) : s[i] \in Digits

\* A request that has left the validation middleware.
Validated(r) == req[r].route = "stkpush" /\ req[r].pc \notin {"idle", "validate"}

\* C1: an initiation request whose phone number (in the string form the
\* pattern is tested on) does not match ^254\d{9}$ ends with one 400
\* response, and neither a token-endpoint GET nor a push-endpoint POST is
\* ever sent for it.
C1_InvalidPhoneRejected ==
  \A r \in Reqs :
    req[r].route = "stkpush" /\ ~MatchesKenyanPattern(JsToString(req[r].phone)) =>
      /\ req[r].tokenGets = 0
      /\ req[r].pushPosts = 0
      /\ Validated(r) =>
           req[r].pc = "done" /\ req[r].status = 400 /\ req[r].responses = 1

\* C1 witness: a request with a present but ill-formed phone number and a
\* good amount has been answered 400.
C1_Witness ==
  \E r \in Reqs :
    /\ req[r].pc = "done" /\ req[r].status = 400
    /\ req[r].phone = Str(ValidPhoneChars \o <<"9">>)
    /\ req[r].amount = Hundred

\* A JSON value that is a number, or a string holding decimal digits.
IsNumeric(v) ==
  \/ v.t = "number" /\ v.s # NaN.s
  \/ v.t = "string" /\ TrimLeft(v.s) # <<>> /\ StringToNumber(v.s).s # NaN.s

\* An amount that is missing, not a number, zero or negative.
NonPositiveOrNonNumeric(v) == ~IsNumeric(v) \/ LessOrEqualZero(v)

\* C2: an initiation request whose amount is non-positive or non-numeric
\* (zero, negative, missing, or not a number) is answered 400 and reaches
\* neither the token fetch nor the gateway submission.
C2_InvalidAmountRejected ==
  \A r \in Reqs :
    req[r].route = "stkpush" /\ NonPositiveOrNonNumeric(req[r].amount) =>
      /\ req[r].tokenGets = 0
      /\ req[r].pushPosts = 0
      /\ Validated(r) => req[r].pc = "done" /\ req[r].status = 400

\* A callback for id has been reconciled: handled to its end by the handler.
Reconciled(id) ==
  \E c \in Cbs : cb[c].pc = "done" /\ cb[c].status = 200 /\ cb[c].body.CheckoutRequestID = id

\* C3: after a successful initiation whose gateway response holds
\* CheckoutRequestID C, the ledger holds an entry for C until a callback for
\* C is reconciled, and does not hold one afterwards.
C3_LedgerTracksInitiation ==
  variant = 1 =>
    \A r \in Reqs :
      LET id == req[r].CheckoutRequestID
      IN  req[r].pc = "done" /\ req[r].status = 200 /\ id # 0 =>
            (pendingGet(pendingTransactions, id) <=> ~Reconciled(id))

\* The records persisted for id: the Appwrite documents (variant 1) and the
\* callback files (variant 2) that hold it.
PersistedFor(id) ==
  Cardinality({ i \in DOMAIN documents : documents[i].checkoutRequestID = id })
  + Cardinality({ n \in DOMAIN files : files[n].CheckoutRequestID = id })

\* Two callbacks with the same correlation id, both handled after the
\* initiation that yielded it.
SameIdPair(c, d) ==
  /\ c # d
  /\ cb[c].pc = "done" /\ cb[d].pc = "done"
  /\ cb[c].body.shape = "object" /\ cb[d].body.shape = "object"
  /\ cb[c].body.CheckoutRequestID = cb[d].body.CheckoutRequestID
  /\ cb[c].initiated /\ cb[d].initiated

\* C4: of two reconciled callbacks with the same correlation id exactly one
\* finds the ledger entry, and both leave a persisted record.
C4_DuplicateCallbacks ==
  \A c, d \in Cbs :
    SameIdPair(c, d) =>
      /\ cb[c].storedData # cb[d].storedData
      /\ PersistedFor(cb[c].body.CheckoutRequestID) >= 2

\* C5: a correlation id that completed initiation and then received a
\* callback has exactly one persisted ReconciledTransaction.
C5_ExactlyOneReconciled ==
  \A c \in Cbs :
    cb[c].pc = "done" /\ cb[c].body.shape = "object" /\ cb[c].initiated =>
      PersistedFor(cb[c].body.CheckoutRequestID) = 1

\* C6: every callback delivery is answered 200, a malformed body and a
\* failed write of the record included.
C6_CallbackAlwaysAcknowledged ==
  \A c \in Cbs : cb[c].pc = "done" => cb[c].status = 200

\* C7: a callback with a nonzero result code and no metadata yields a record
\* with amount null and receipt number null, the result code and description
\* those of the callback, and every other metadata field null.
C7_FailedCallbackRecord ==
  \A c \in Cbs :
    /\ variant = 1 /\ cb[c].pc = "done"
    /\ cb[c].body.shape = "object" /\ cb[c].body.ResultCode # 0 /\ cb[c].body.meta = "absent"
    => /\ cb[c].built
       /\ cb[c].transaction.amount = Null
       /\ cb[c].transaction.mpesaReceiptNumber = Null
       /\ cb[c].transaction.transactionDate = Null
       /\ cb[c].transaction.phoneNumber = Null
       /\ cb[c].transaction.resultCode = cb[c].body.ResultCode
       /\ cb[c].transaction.resultDesc = cb[c].body.ResultDesc

\* The items of a list that carry a name.
ItemsNamed(items, name) == { i \in DOMAIN items : items[i].Name = name }

\* A list that holds exactly one item of each of the four metadata names.
HoldsAllMetadata(items) == \A n \in MetadataNames : Cardinality(ItemsNamed(items, n)) = 1

ValueOf(items, name) == items[CHOOSE i \in DOMAIN items : items[i].Name = name].Value

\* C8: a callback with result code 0 whose metadata list holds an Amount, an
\* MpesaReceiptNumber, a TransactionDate and a PhoneNumber item, in any
\* order and among any other items, yields (variant 1) a record with exactly
\* those four values and with the callback's CheckoutRequestID,
\* MerchantRequestID, ResultCode and ResultDesc.
C8_SuccessfulCallbackRecord ==
  \A c \in Cbs :
    /\ variant = 1 /\ cb[c].pc = "done"
    /\ cb[c].body.shape = "object" /\ cb[c].body.ResultCode = 0
    /\ cb[c].body.meta = "list" /\ HoldsAllMetadata(cb[c].body.Item)
    => /\ cb[c].built
       /\ cb[c].transaction.amount = ValueOf(cb[c].body.Item, "Amount")
       /\ cb[c].transaction.mpesaReceiptNumber = ValueOf(cb[c].body.Item, "MpesaReceiptNumber")
       /\ cb[c].transaction.transactionDate = ValueOf(cb[c].body.Item, "TransactionDate")
       /\ cb[c].transaction.phoneNumber = ValueOf(cb[c].body.Item, "PhoneNumber")
       /\ cb[c].transaction.checkoutRequestID = cb[c].body.CheckoutRequestID
       /\ cb[c].transaction.merchantRequestID = cb[c].body.MerchantRequestID
       /\ cb[c].transaction.resultCode = cb[c].body.ResultCode
       /\ cb[c].transaction.resultDesc = cb[c].body.ResultDesc

\* C8 witness: such a callback has been handled whose list starts with the
\* PhoneNumber item, ends with the Amount item and holds a fifth item.
C8_Witness ==
  \E c \in Cbs :
    /\ variant = 1 /\ cb[c].pc = "done" /\ cb[c].built
    /\ cb[c].body.ResultCode = 0 /\ cb[c].body.CheckoutRequestID # 0
    /\ cb[c].body.meta = "list" /\ HoldsAllMetadata(cb[c].body.Item)
    /\ Len(cb[c].body.Item) = 5
    /\ cb[c].body.Item[1].Name = "PhoneNumber"
    /\ cb[c].body.Item[5].Name = "Amount"
    /\ cb[c].transaction.amount = Num(FALSE, <<"2","0">>)

\* The tokens the service has obtained whose remaining TTL exceeds the
\* safety margin.
FreshTokens == { i \in DOMAIN issued : issued[i] + TokenTTL - now > SafetyMargin }

\* C9: while the service holds a token whose remaining TTL exceeds the
\* safety margin, obtaining a token sends no GET to the token endpoint.
C9_FreshTokenNoNetworkCall ==
  [][ FreshTokens # {} => \A r \in Reqs : req'[r].tokenGets = req[r].tokenGets ]_vars

\* C10: a successful fetch updates the cache: a getToken that starts while a
\* fetched token is within its TTL returns that token.
C10_FetchedTokenIsCached ==
  [][ \A r \in Reqs :
        FreshTokens # {} /\ req[r].pc = "getToken" /\ req'[r].pc # "getToken" =>
          req'[r].accessToken \in FreshTokens ]_vars
\* C11: an initiation is never retried: at most one POST to the push
\* endpoint is sent for a request, and a request whose POST failed has sent
\* exactly one and is answered with one 500 response.
C11_NoAutomaticRetry ==
  \A r \in Reqs :
    /\ req[r].pushPosts <= 1
    /\ req[r].pushOutcome = "failed" =>
         /\ req[r].pc = "done" /\ req[r].pushPosts = 1
         /\ req[r].status = 500 /\ req[r].responses = 1

\* C11 witness: the POST of a request has failed and the request is answered.
C11_Witness ==
  \E r \in Reqs : req[r].pushOutcome = "failed" /\ req[r].pc = "done" /\ req[r].pushPosts = 1
\* C12: every answered initiation has one of three response shapes: 200
\* with {success: true, message, data} when the gateway accepted the push,
\* 400 with {error} when validation failed, 500 with {success: false, error}
\* when the token fetch or the push failed.
C12_ResponseShapes ==
  \A r \in Reqs :
    req[r].route = "stkpush" /\ req[r].pc = "done" =>
      \/ req[r].status = 200 /\ req[r].body = "success" /\ req[r].pushOutcome = "accepted"
      \/ /\ req[r].status = 400 /\ req[r].body = "error"
         /\ req[r].tokenOutcome = "" /\ req[r].pushOutcome = ""
      \/ /\ req[r].status = 500 /\ req[r].body = "failure"
         /\ req[r].tokenOutcome \in {"missing", "failed"} \/ req[r].pushOutcome = "failed"
\* The steps the service takes by itself are taken: Node runs a middleware or
\* handler that is ready.  Nothing makes the gateway answer: the GET of
\* lines 42-44 and the POST of lines 167-172 set no timeout, and axios waits
\* without limit by default.
ServiceFairness ==
  /\ \A r \in Reqs : WF_vars(Validate(r))
  /\ \A r \in Reqs : WF_vars(CallGetAccessToken(r))

SpecInitiationFair == InitInitiation /\ [][NextInitiation]_vars /\ ServiceFairness

\* C13: no operation blocks indefinitely: every initiation request is
\* eventually answered, also when the gateway never answers.
C13_EveryRequestAnswered ==
  \A r \in Reqs : (req[r].pc = "validate") ~> (req[r].pc = "done")
\* The value of a character of the base64 alphabet.
Base64Value(c) == (CHOOSE i \in 1..64 : Base64Alphabet[i] = c) - 1

\* The bytes a base64 text stands for, read four characters at a time.
RECURSIVE Base64Decode(_)
Base64Decode(s) ==
  IF Len(s) < 4 THEN <<>>
  ELSE
    LET v1 == Base64Value(s[1])
        v2 == Base64Value(s[2])
        b1 == v1 * 4 + v2 \div 16
        rest == Base64Decode(SubSeq(s, 5, Len(s)))
    IN  IF s[3] = "=" THEN <<b1>>
        ELSE LET v3 == Base64Value(s[3])
                 b2 == (v2 % 16) * 16 + v3 \div 4
             IN  IF s[4] = "=" THEN <<b1, b2>>
                 ELSE <<b1, b2, (v3 % 4) * 64 + Base64Value(s[4])>> \o rest

\* The ASCII text of a sequence of bytes.
TextOf(bytes) == [i \in 1..Len(bytes) |-> Printable[bytes[i] - 31]]

\* C14: the Password of every request sent to the push endpoint is the
\* base64 text of shortCode + passKey + T, T being the Timestamp of that
\* same request (fourteen digits), also with initiations interleaved.
C14_PasswordFromSentTimestamp ==
  \A r \in Reqs :
    req[r].pushPosts > 0 =>
      /\ Len(req[r].requestData.Timestamp) = 14
      /\ AllDigits(req[r].requestData.Timestamp)
      /\ Len(req[r].requestData.Password) % 4 = 0
      /\ TextOf(Base64Decode(req[r].requestData.Password))
           = BusinessShortCode \o PassKey \o req[r].requestData.Timestamp

\* C14 witness: two requests have been sent to the push endpoint with
\* different timestamps, the later one after the hour rolled over.
C14_Witness ==
  \E r1, r2 \in Reqs :
    /\ req[r1].pushPosts > 0 /\ req[r2].pushPosts > 0
    /\ req[r1].requestData.Timestamp = formatTimestamp(0)
    /\ req[r2].requestData.Timestamp = formatTimestamp(1)
    /\ req[r1].requestData.Password # req[r2].requestData.Password
\* C15: a callback whose correlation id has no ledger entry is not
\* discarded: the handler that reconciles it (answer 200) leaves a persisted
\* record for that id; and a callback that found an entry leaves one too.
C15_UnmatchedCallbackPersisted ==
  \A c \in Cbs :
    cb[c].pc = "done" /\ cb[c].status = 200 =>
      PersistedFor(cb[c].body.CheckoutRequestID) >= 1
\* C16: an initiation whose token acquisition failed (credentials missing,
\* or the token endpoint refused or failed) is answered with one 500
\* response, sends no POST to the push endpoint and keeps no token; a failed
\* fetch adds no token to those the service has obtained; with the
\* credentials missing no GET and no POST is sent at all.
C16_TokenFailureAnswered500 ==
  /\ \A r \in Reqs :
       req[r].route = "stkpush" /\ req[r].tokenOutcome \in {"missing", "failed"} =>
         /\ req[r].pc = "done" /\ req[r].status = 500 /\ req[r].responses = 1
         /\ req[r].pushPosts = 0
         /\ req[r].accessToken = 0 /\ req[r].fetched = 0
         /\ req[r].tokenOutcome = "missing" => req[r].tokenGets = 0
  /\ Len(issued) = Cardinality({ r \in Reqs : req[r].tokenOutcome = "ok" })
  /\ ~credentials => \A r \in Reqs : req[r].tokenGets = 0 /\ req[r].pushPosts = 0

\* C16 witness: the token fetch of an initiation has failed and the request
\* is answered, and a later initiation has fetched a token of its own and
\* sent its POST.
C16_Witness ==
  \E r1, r2 \in Reqs :
    /\ r1 < r2
    /\ req[r1].route = "stkpush" /\ req[r1].tokenOutcome = "failed" /\ req[r1].pc = "done"
    /\ req[r2].route = "stkpush" /\ req[r2].tokenOutcome = "ok" /\ req[r2].pushPosts = 1

\* C17: pendingTransactions is empty in every state and the lookup of every
\* callback misses, whatever initiations and callbacks have run.
C17_LedgerAlwaysEmpty ==
  /\ pendingTransactions = {}
  /\ \A c \in Cbs : ~cb[c].storedData
  /\ \A id \in {0} \cup CorrIds : ~pendingGet(pendingTransactions, id)

\* C17 witness: an initiation was accepted with a CheckoutRequestID and a
\* callback for that id was handled afterwards by the handler that looks the
\* id up.
C17_Witness ==
  \E r \in Reqs : \E c \in Cbs :
    /\ variant = 1
    /\ req[r].pc = "done" /\ req[r].status = 200 /\ req[r].CheckoutRequestID # 0
    /\ cb[c].pc = "done" /\ cb[c].built /\ cb[c].initiated
    /\ cb[c].body.CheckoutRequestID = req[r].CheckoutRequestID

\* C18: a request sends its POST to the push endpoint only after it passed
\* validation and then fetched a token, the bearer of the POST is the token
\* returned to the GET of that same request, and no other request fetched
\* that token.
C18_PushUsesOwnToken ==
  \A r \in Reqs :
    /\ req[r].route = "stkpush" /\ req[r].tokenGets > 0 =>
         validateStkPushRequest(req[r].phone, req[r].amount) = 0
    /\ req[r].pushPosts > 0 =>
         /\ req[r].route = "stkpush"
         /\ validateStkPushRequest(req[r].phone, req[r].amount) = 0
         /\ req[r].tokenGets = 1 /\ req[r].tokenOutcome = "ok"
         /\ req[r].fetched # 0
         /\ req[r].requestData.bearer = req[r].fetched
         /\ \A q \in Reqs \ {r} : req[q].fetched # req[r].requestData.bearer

\* C18 witness: two initiations were in flight together and the one that
\* arrived second was given its token first; both have sent their POST.
C18_Witness ==
  /\ req[1].pushPosts = 1 /\ req[2].pushPosts = 1
  /\ req[1].fetched = 2 /\ req[2].fetched = 1

\* C19: a request to the initiation endpoint or to the callback endpoint
\* gets at most one response, and exactly one once it is finished; a request
\* the validation middleware rejected reaches neither the token fetch nor
\* the handler, and one the token middleware rejected does not reach the
\* handler.
C19_AtMostOneResponse ==
  /\ \A r \in Reqs :
       /\ req[r].responses <= 1
       /\ req[r].responses = 1 <=> req[r].pc = "done"
       /\ req[r].status = 400 =>
            req[r].tokenGets = 0 /\ req[r].pushPosts = 0 /\ req[r].pc = "done"
       /\ req[r].tokenOutcome \in {"missing", "failed"} =>
            req[r].pushPosts = 0 /\ req[r].pc = "done"
  /\ \A c \in Cbs :
       /\ cb[c].responses <= 1
       /\ cb[c].responses = 1 <=> cb[c].pc = "done"

\* C19 witness: an initiation was rejected by the validation middleware,
\* another went through to the handler and was answered, and a callback was
\* answered.
C19_Witness ==
  /\ \E r \in Reqs : req[r].route = "stkpush" /\ req[r].status = 400 /\ req[r].responses = 1
  /\ \E r \in Reqs : req[r].pushPosts = 1 /\ req[r].pc = "done" /\ req[r].responses = 1
  /\ \E c \in Cbs : cb[c].pc = "done" /\ cb[c].responses = 1
====
